---- MODULE Spec2Model ----
(***************************************************************************)
(* Model of dhl_sdk/crud.py: CRUDClient (get, list) and the paginated      *)
(* Result iterator (__next__, __len__, _fetch_next, is_empty).             *)
(*                                                                         *)
(* Wire strings (query-parameter values, the x-total-count header) are     *)
(* sequences of one-character strings, so that str() and int() are real    *)
(* conversions.  A Python dict is a function from its keys to its values.  *)
(* Optional values are <<>> (None) or <<v>>.                               *)
(***************************************************************************)
EXTENDS Integers, Sequences, FiniteSets, TLC

\* ---------------------------------------------------------------- bounds
MaxTotal == 2      \* largest server collection
MaxLimit == 2      \* largest page size a Result is created with
MaxCalls == 4      \* list calls one Result may issue
MaxChanges == 1    \* changes of the server's collection

VARIABLES
    collection,     \* server: ids of the matching entities, in listing order
    nextId,         \* server: id of the next entity it creates
    changes,        \* server: changes of the collection so far
    data,           \* Result._data
    limit,          \* Result.limit
    offset,         \* Result.offset
    total,          \* Result._total: <<>> is None, <<n>> is n
    query_params,   \* Result._query_params (the dict object the caller passed)
    start,          \* history: the offset the Result was created with
    filter0,        \* history: the query filter the Result was created with
    yielded,        \* history: entities returned by next(), in order
    nNext,          \* history: list calls issued by next()
    nLen,           \* history: list calls issued by length()
    fetched,        \* history: page fetches of next() that completed
    stops,          \* history: next() calls that signalled end-of-sequence
    lastReq,        \* history: <<>> or <<the latest list call>>
    lenRun,         \* history: the current run of length() calls without next()
    lastPage,       \* history: the page of the latest completed page fetch
    pageReqs,       \* history: the answered page requests of next(), in order
    conc,           \* the callers of next() that run step by step
    last            \* history: the latest operation and how it ended

vars == <<collection, nextId, changes, data, limit, offset, total,
          query_params, start, filter0, yielded, nNext, nLen, fetched, stops,
          lastReq, lenRun, lastPage, pageReqs, conc, last>>

\* ------------------------------------------------------- strings and ints
Digits == <<"0", "1", "2", "3", "4", "5", "6", "7", "8", "9">>

DigitVal(c) == (CHOOSE i \in 1..10 : Digits[i] = c) - 1

IsDigit(c) == \E i \in 1..10 : Digits[i] = c

RECURSIVE StrNat(_)
StrNat(n) == IF n < 10 THEN <<Digits[n + 1]>>
             ELSE StrNat(n \div 10) \o <<Digits[(n % 10) + 1]>>

\* Python str(int)
str(n) == IF n < 0 THEN <<"-">> \o StrNat(0 - n) ELSE StrNat(n)

RECURSIVE NatOf(_)
NatOf(s) == IF s = <<>> THEN 0
            ELSE 10 * NatOf(SubSeq(s, 1, Len(s) - 1)) + DigitVal(s[Len(s)])

Unsigned(s) == IF s # <<>> /\ s[1] \in {"-", "+"} THEN Tail(s) ELSE s

\* int(s) succeeds: an optional sign and at least one decimal digit
IsIntStr(s) == /\ Unsigned(s) # <<>>
               /\ \A i \in 1..Len(Unsigned(s)) : IsDigit(Unsigned(s)[i])

\* Python int(str), defined where IsIntStr holds
int(s) == IF s[1] = "-" THEN 0 - NatOf(Tail(s)) ELSE NatOf(Unsigned(s))

None == <<>>

Some(v) == <<v>>

Min(a, b) == IF a < b THEN a ELSE b

\* ------------------------------------------------------------------ dicts
EmptyDict == [k \in {} |-> <<>>]

ReservedKeys == {"offset", "limit", "archived", "sortBy[createdAt]"}

S_false == <<"f", "a", "l", "s", "e">>

S_desc == <<"d", "e", "s", "c">>

\* variant: the left operand wins, as in `query_params = {...} | query_params`
DictUpdate_left_wins(d, r) ==
    [k \in (DOMAIN d) \cup (DOMAIN r) |-> IF k \in DOMAIN d THEN d[k] ELSE r[k]]

\* variant: the right operand replaces the mapping
DictUpdate_replace(d, r) == r

\* d |= r : the right operand wins on every key it has
DictUpdate(d, r) ==
    [k \in (DOMAIN d) \cup (DOMAIN r) |-> IF k \in DOMAIN r THEN r[k] ELSE d[k]]

\* the dict literal of CRUDClient.list
Reserved(off, lim) ==
    [k \in ReservedKeys |->
        CASE k = "offset" -> str(off)
          [] k = "limit" -> str(lim)
          [] k = "archived" -> S_false
          [] OTHER -> S_desc]

\* a query filter with a key of its own and no reserved key
OwnKeyFilter == [k \in {"name"} |-> <<"x">>]

\* query filters a caller creates a Result with: none, and one that has a
\* key of its own and every reserved key with another value
Filters ==
    { EmptyDict,
      [k \in {"name"} \cup ReservedKeys |->
          CASE k = "name" -> <<"x">>
            [] k = "offset" -> <<"7">>
            [] k = "limit" -> <<"9">>
            [] k = "archived" -> <<"t", "r", "u", "e">>
            [] OTHER -> <<"a", "s", "c">>] }

\* --------------------------------------------------- server and transport
\* what can go wrong in one list call
Faults == {"none", "raise", "nohdr", "badhdr", "factory"}

\* the window [offset, offset + limit) of the collection the request names
ServerPage(req) ==
    LET o == int(req["offset"])
        l == int(req["limit"])
    IN  SubSeq(collection, o + 1, Min(o + l, Len(collection)))

\* Client.get(base_url, query_params): raises, or returns a Response
ClientGetList(req, fault) ==
    IF fault = "raise" THEN [raised |-> TRUE, header |-> None, body |-> <<>>]
    ELSE [raised |-> FALSE,
          header |-> CASE fault = "nohdr" -> None
                       [] fault = "badhdr" -> Some(<<"a", "b", "c">>)
                       [] OTHER -> Some(str(Len(collection))),
          body |-> ServerPage(req)]

\* self._constructor(**entity, client=self._client)
Constructor(id) == [id |-> id, client |-> "client"]

\* --------------------------------------------------------- CRUDClient.list
\* the mapping the merged reserved keys are written into: `query_params or {}`
\* is the caller's own dict object unless that is None or empty
MergeTarget(qp) == IF DOMAIN qp = {} THEN EmptyDict ELSE qp

\* request: the query sent; stored: the caller's dict object after the call;
\* ok, err: returned or raised; entities, total: the returned pair;
\* factory: constructor invocations
list(off, lim, qp, fault) ==
    LET req == DictUpdate(MergeTarget(qp), Reserved(off, lim))
        stored == IF DOMAIN qp = {} THEN qp ELSE req
        response == ClientGetList(req, fault)
        base == [request |-> req, stored |-> stored, ok |-> FALSE,
                 err |-> "", entities |-> <<>>, total |-> 0, factory |-> 0]
    IN  IF response.raised THEN [base EXCEPT !.err = "TransportError"]
        ELSE IF response.header = None THEN [base EXCEPT !.err = "TypeError"]
        ELSE IF ~IsIntStr(response.header[1])
            THEN [base EXCEPT !.err = "ValueError"]
        ELSE IF fault = "factory" /\ response.body # <<>>
            THEN [base EXCEPT !.err = "ConstructionError", !.factory = 1]
        ELSE [base EXCEPT !.ok = TRUE,
                          !.entities = [i \in 1..Len(response.body) |->
                                           Constructor(response.body[i])],
                          !.total = int(response.header[1]),
                          !.factory = Len(response.body)]

\* ---------------------------------------------------------- CRUDClient.get
\* what Client.get(f"{base_url}/{entity_id}") can do: raise, or return a
\* Response whose status the server chose and whose body is a JSON object,
\* a JSON array or not JSON at all
GetResponses(entity_id) ==
    LET status == IF \E i \in 1..Len(collection) : collection[i] = entity_id
                  THEN 200 ELSE 404
    IN  {[raised |-> TRUE, status |-> status, body |-> "none"]} \cup
        {[raised |-> FALSE, status |-> status, body |-> b] :
            b \in IF status = 200 THEN {"object"}
                  ELSE {"object", "array", "notjson"}}

\* factoryFails: the injected constructor rejects the fields it is given
get(entity_id, response, factoryFails) ==
    LET base == [ok |-> FALSE, err |-> "", entity |-> None, factory |-> 0]
    IN  IF response.raised THEN [base EXCEPT !.err = "TransportError"]
        ELSE IF response.body = "notjson"
            THEN [base EXCEPT !.err = "JSONDecodeError"]
        ELSE IF response.body = "array" THEN [base EXCEPT !.err = "TypeError"]
        ELSE IF factoryFails
            THEN [base EXCEPT !.err = "ConstructionError", !.factory = 1]
        ELSE [base EXCEPT !.ok = TRUE, !.entity = Some(Constructor(entity_id)),
                          !.factory = 1]

\* ------------------------------------------------------------------ Result
\* variant: no memoization
TotalUnknown_always(tot) == TRUE

\* `if self._total is None`
TotalUnknown(tot) == tot = None

\* variant: every call fetches
NeedsFetch_always(dat) == TRUE

\* `if not self._data`
NeedsFetch(dat) == dat = <<>>

\* variant: an empty buffer after the fetch is not noticed
PageExhausted_never(dat) == FALSE

\* `if len(self._data) == 0`
PageExhausted(dat) == Len(dat) = 0

\* variant: the offset is left where it was
Advance_stays(off, lim) == off

\* `self.offset += self.limit`
Advance(off, lim) == off + lim

\* variant: a page shorter than the limit ends the sequence
Result_fetch_next_short_stops(off, lim, dat, tot, out) ==
    IF ~out.ok
    THEN [offset |-> off, data |-> dat, total |-> tot, raised |-> out.err]
    ELSE LET d == dat \o out.entities
         IN  [offset |-> off + lim, data |-> d, total |-> Some(out.total),
              raised |-> IF Len(out.entities) < lim THEN "StopIteration"
                         ELSE ""]

\* variant: a total that is already known is kept
Result_fetch_next_keeps_total(off, lim, dat, tot, out) ==
    IF ~out.ok
    THEN [offset |-> off, data |-> dat, total |-> tot, raised |-> out.err]
    ELSE LET d == dat \o out.entities
         IN  [offset |-> off + lim, data |-> d,
              total |-> IF tot = None THEN Some(out.total) ELSE tot,
              raised |-> IF Len(d) = 0 THEN "StopIteration" ELSE ""]

\* variant: the offset is advanced by the number of entities received
Result_fetch_next_by_received(off, lim, dat, tot, out) ==
    IF ~out.ok
    THEN [offset |-> off, data |-> dat, total |-> tot, raised |-> out.err]
    ELSE LET d == dat \o out.entities
         IN  [offset |-> off + Len(out.entities), data |-> d,
              total |-> Some(out.total),
              raised |-> IF Len(d) = 0 THEN "StopIteration" ELSE ""]

\* variant: the offset is advanced before the list call
Result_fetch_next_eager(off, lim, dat, tot, out) ==
    IF ~out.ok
    THEN [offset |-> off + lim, data |-> dat, total |-> tot,
          raised |-> out.err]
    ELSE LET d == dat \o out.entities
         IN  [offset |-> off + lim, data |-> d, total |-> Some(out.total),
              raised |-> IF Len(d) = 0 THEN "StopIteration" ELSE ""]

\* variant: the offset counts pages, not entities
Result_fetch_next_page_index(off, lim, dat, tot, out) ==
    IF ~out.ok
    THEN [offset |-> off, data |-> dat, total |-> tot, raised |-> out.err]
    ELSE LET d == dat \o out.entities
         IN  [offset |-> off + 1, data |-> d, total |-> Some(out.total),
              raised |-> IF Len(d) = 0 THEN "StopIteration" ELSE ""]

\* out is what self._requests.list(self.offset, self.limit, ...) did
Result_fetch_next(off, lim, dat, tot, out) ==
    IF ~out.ok
    THEN [offset |-> off, data |-> dat, total |-> tot, raised |-> out.err]
    ELSE LET d == dat \o out.entities
         IN  [offset |-> Advance(off, lim), data |-> d,
              total |-> Some(out.total),
              raised |-> IF PageExhausted(d) THEN "StopIteration" ELSE ""]

\* variant: the entity is taken from the right end of the buffer
Result_next_pop_right(off, lim, dat, tot, out) ==
    LET f == IF dat = <<>> THEN Result_fetch_next(off, lim, dat, tot, out)
             ELSE [offset |-> off, data |-> dat, total |-> tot, raised |-> ""]
    IN  IF f.raised # ""
        THEN [offset |-> f.offset, data |-> f.data, total |-> f.total,
              raised |-> f.raised, value |-> None]
        ELSE IF f.data = <<>>
        THEN [offset |-> f.offset, data |-> f.data, total |-> f.total,
              raised |-> "IndexError", value |-> None]
        ELSE [offset |-> f.offset,
              data |-> SubSeq(f.data, 1, Len(f.data) - 1),
              total |-> f.total, raised |-> "",
              value |-> Some(f.data[Len(f.data)])]

\* out is used only when the buffer is empty
Result_next(off, lim, dat, tot, out) ==
    LET f == IF NeedsFetch(dat) THEN Result_fetch_next(off, lim, dat, tot, out)
             ELSE [offset |-> off, data |-> dat, total |-> tot, raised |-> ""]
    IN  IF f.raised # ""
        THEN [offset |-> f.offset, data |-> f.data, total |-> f.total,
              raised |-> f.raised, value |-> None]
        ELSE IF f.data = <<>>
        THEN [offset |-> f.offset, data |-> f.data, total |-> f.total,
              raised |-> "IndexError", value |-> None]
        ELSE [offset |-> f.offset, data |-> Tail(f.data), total |-> f.total,
              raised |-> "", value |-> Some(Head(f.data))]

\* variant: the count is taken by fetching a page
Result_len_fetching(off, lim, dat, tot, out) ==
    IF tot = None
    THEN IF out.ok
         THEN [offset |-> off + lim, data |-> dat \o out.entities,
               total |-> Some(out.total), raised |-> "",
               value |-> Some(out.total)]
         ELSE [offset |-> off, data |-> dat, total |-> tot,
               raised |-> out.err, value |-> None]
    ELSE [offset |-> off, data |-> dat, total |-> tot, raised |-> "",
          value |-> tot]

\* out is what self._requests.list(0, 0, ...) did; used only when total is None
Result_len(off, lim, dat, tot, out) ==
    IF TotalUnknown(tot)
    THEN IF out.ok
         THEN [offset |-> off, data |-> dat, total |-> Some(out.total),
               raised |-> "", value |-> Some(out.total)]
         ELSE [offset |-> off, data |-> dat, total |-> tot,
               raised |-> out.err, value |-> None]
    ELSE [offset |-> off, data |-> dat, total |-> tot, raised |-> "",
          value |-> tot]

Result_is_empty(tot) == tot = Some(0)

\* ------------------------------------------------------------------- state
NewRun(tot) == [calls |-> 0, fails |-> 0, known |-> tot # None, vals |-> {}]

NoOp == [op |-> "init", outcome |-> "", value |-> None, err |-> "",
         called |-> FALSE, page |-> <<>>, factory |-> 0, status |-> 0]

\* a list call: its arguments and the query it sent
Call(off, lim, qp, out) ==
    [off |-> off, lim |-> lim, qp |-> qp, request |-> out.request]

Outcome(raised) == CASE raised = "" -> "value"
                     [] raised = "StopIteration" -> "stop"
                     [] OTHER -> "error"

\* start offsets a caller creates a Result with
Starts == {0, 1}

\* Result.__init__ over a server holding n entities, newest first
\* n callers, none inside next(); page, tot: the pair list returned to the
\* caller; requested, answered: offsets of the list calls made and of those
\* that returned; twice: a list call asked for an offset asked for before;
\* again: a list call asked for an offset a list call had returned for;
\* popEmpty: popleft ran on an empty buffer
ConcInit(n) ==
    [n |-> n,
     pc |-> [c \in {1, 2} |-> "idle"],
     page |-> [c \in {1, 2} |-> <<>>],
     tot |-> [c \in {1, 2} |-> 0],
     requested |-> {}, answered |-> {},
     twice |-> FALSE, again |-> FALSE, popEmpty |-> FALSE]

InitWith(filters, callers) ==
    /\ \E n \in 0..MaxTotal : /\ collection = [i \in 1..n |-> n + 1 - i]
                              /\ nextId = n + 1
    /\ changes = 0
    /\ data = <<>>
    /\ limit \in 0..MaxLimit
    /\ offset \in Starts
    /\ total = None
    /\ query_params \in filters
    /\ start = offset
    /\ filter0 = query_params
    /\ yielded = <<>>
    /\ nNext = 0
    /\ nLen = 0
    /\ fetched = 0
    /\ stops = 0
    /\ lastReq = None
    /\ lenRun = NewRun(None)
    /\ lastPage = <<>>
    /\ pageReqs = <<>>
    /\ \E n \in callers : conc = ConcInit(n)
    /\ last = NoOp

Init == InitWith(Filters, {1})

\* over a server that does not change, the filter without reserved keys too
InitStatic == InitWith(Filters \cup {OwnKeyFilter}, {1})

\* ----------------------------------------------------------------- actions
\* Result.__next__
NextOp(fault) ==
    LET called == NeedsFetch(data)
        out == list(offset, limit, query_params, fault)
        r == Result_next(offset, limit, data, total, out)
    IN  /\ called => nNext + nLen < MaxCalls
        /\ offset' = r.offset
        /\ data' = r.data
        /\ total' = r.total
        /\ query_params' = IF called THEN out.stored ELSE query_params
        /\ yielded' = IF r.value # None THEN Append(yielded, r.value[1])
                      ELSE yielded
        /\ nNext' = nNext + (IF called THEN 1 ELSE 0)
        /\ fetched' = fetched + (IF called /\ out.ok THEN 1 ELSE 0)
        /\ stops' = stops + (IF r.raised = "StopIteration" THEN 1 ELSE 0)
        /\ lastReq' = IF called THEN Some(Call(offset, limit, query_params, out))
                       ELSE lastReq
        /\ lenRun' = NewRun(r.total)
        /\ lastPage' = IF called /\ out.ok THEN out.entities ELSE lastPage
        /\ pageReqs' = IF called /\ out.ok
                        THEN Append(pageReqs, [off |-> offset, lim |-> limit,
                                               request |-> out.request])
                        ELSE pageReqs
        /\ last' = [NoOp EXCEPT !.op = "next", !.outcome = Outcome(r.raised),
                                !.value = r.value, !.err = r.raised,
                                !.called = called,
                                !.page = IF called THEN out.entities ELSE <<>>,
                                !.factory = IF called THEN out.factory ELSE 0]
        /\ UNCHANGED <<conc, collection, nextId, changes, limit, start, filter0,
                       nLen>>

\* Result.__len__
LengthOp(fault) ==
    LET called == TotalUnknown(total)
        out == list(0, 0, query_params, fault)
        r == Result_len(offset, limit, data, total, out)
    IN  /\ called => nNext + nLen < MaxCalls
        /\ offset' = r.offset
        /\ data' = r.data
        /\ total' = r.total
        /\ query_params' = IF called THEN out.stored ELSE query_params
        /\ nLen' = nLen + (IF called THEN 1 ELSE 0)
        /\ lastReq' = IF called THEN Some(Call(0, 0, query_params, out))
                       ELSE lastReq
        /\ lenRun' = [calls |-> lenRun.calls + (IF called THEN 1 ELSE 0),
                      fails |-> lenRun.fails + (IF r.raised # "" THEN 1 ELSE 0),
                      known |-> lenRun.known,
                      vals |-> lenRun.vals \cup
                               (IF r.value # None THEN {r.value[1]} ELSE {})]
        /\ last' = [NoOp EXCEPT !.op = "len", !.outcome = Outcome(r.raised),
                                !.value = r.value, !.err = r.raised,
                                !.called = called,
                                !.page = IF called THEN out.entities ELSE <<>>,
                                !.factory = IF called THEN out.factory ELSE 0]
        /\ UNCHANGED <<conc, collection, nextId, changes, limit, start, filter0,
                       yielded, nNext, fetched, stops, lastPage, pageReqs>>

\* Result.is_empty
IsEmptyOp ==
    /\ last' = [NoOp EXCEPT !.op = "is_empty", !.outcome = "value",
                            !.value = Some(Result_is_empty(total))]
    /\ UNCHANGED <<conc, collection, nextId, changes, data, limit, offset, total,
                   query_params, start, filter0, yielded, nNext, nLen, fetched,
                   stops, lastReq, lenRun, lastPage, pageReqs>>

\* CRUDClient.get
GetOp(entity_id, response, factoryFails) ==
    LET r == get(entity_id, response, factoryFails)
    IN  /\ last' = [NoOp EXCEPT !.op = "get",
                                !.outcome = IF r.ok THEN "value" ELSE "error",
                                !.value = r.entity, !.err = r.err,
                                !.called = ~response.raised,
                                !.factory = r.factory,
                                !.status = IF response.raised THEN 0
                                           ELSE response.status]
        /\ UNCHANGED <<conc, collection, nextId, changes, data, limit, offset, total,
                       query_params, start, filter0, yielded, nNext, nLen,
                       fetched, stops, lastReq, lenRun, lastPage, pageReqs>>

\* the server gains k entities between two calls of the client; the newest
\* lists first (sortBy[createdAt] = desc)
ServerAdd(k) ==
    /\ changes < MaxChanges
    /\ changes' = changes + 1
    /\ collection' = [i \in 1..k |-> nextId + k - i] \o collection
    /\ nextId' = nextId + k
    /\ last' = [NoOp EXCEPT !.op = "server"]
    /\ UNCHANGED <<conc, data, limit, offset, total, query_params, start, filter0,
                   yielded, nNext, nLen, fetched, stops, lastReq, lenRun,
                   lastPage, pageReqs>>

\* the server loses an entity (deleted or archived)
ServerRemove(i) ==
    /\ changes < MaxChanges
    /\ changes' = changes + 1
    /\ collection' = [j \in 1..(Len(collection) - 1) |->
                         IF j < i THEN collection[j] ELSE collection[j + 1]]
    /\ last' = [NoOp EXCEPT !.op = "server"]
    /\ UNCHANGED <<conc, nextId, data, limit, offset, total, query_params, start,
                   filter0, yielded, nNext, nLen, fetched, stops, lastReq,
                   lenRun, lastPage, pageReqs>>

\* a call that issues no list call meets no fault
FaultsAt(called) == IF called THEN Faults ELSE {"none"}

\* the Result against a server that may fail a call and whose collection may
\* grow between calls
Next == \/ \E fault \in FaultsAt(NeedsFetch(data)) : NextOp(fault)
        \/ \E fault \in FaultsAt(TotalUnknown(total)) : LengthOp(fault)
        \/ IsEmptyOp
        \/ \E k \in 1..(MaxTotal - Len(collection)) : ServerAdd(k)

Spec == Init /\ [][Next]_vars

\* a server that answers every list call and whose collection never changes
NextStatic == \/ NextOp("none")
              \/ LengthOp("none")
              \/ IsEmptyOp

SpecStatic == InitStatic /\ [][NextStatic]_vars

\* CRUDClient.get alone, for an id the server has or does not have
NextGet == \/ \E id \in {1, nextId} : \E response \in GetResponses(id) :
                 \E factoryFails \in BOOLEAN : GetOp(id, response, factoryFails)
           \/ \E k \in 1..(MaxTotal - Len(collection)) : ServerAdd(k)
           \/ \E i \in 1..Len(collection) : ServerRemove(i)

SpecGet == Init /\ [][NextGet]_vars

TypeOK ==
    /\ Len(collection) <= MaxTotal
    /\ limit \in 0..MaxLimit
    /\ offset \in Nat
    /\ total = None \/ (Len(total) = 1 /\ total[1] \in Nat)
    /\ nNext + nLen <= MaxCalls

\* ------------------------------------------- next() by unsynchronized callers
\* Each caller runs __next__ and _fetch_next one statement at a time on the
\* one Result: idle -> (test) -> list -> advance -> extend -> check -> pop.
CallerIds == 1..2

Callers == {c \in CallerIds : c <= conc.n}

ConcFaults == {"none", "raise"}

StepOp == [NoOp EXCEPT !.op = "step"]

\* `if not self._data:`
StepTest(c) ==
    /\ c \in Callers /\ conc.pc[c] = "idle"
    /\ conc' = [conc EXCEPT
                   !.pc[c] = IF NeedsFetch(data) THEN "list" ELSE "pop"]
    /\ last' = StepOp
    /\ UNCHANGED <<collection, nextId, changes, data, limit, offset, total,
                   query_params, start, filter0, yielded, nNext, nLen, fetched,
                   stops, lastReq, lenRun, lastPage, pageReqs>>

\* `entities, total = self._requests.list(self.offset, self.limit, ...)`
StepList(c, fault) ==
    LET out == list(offset, limit, query_params, fault)
    IN  /\ c \in Callers /\ conc.pc[c] = "list"
        /\ nNext + nLen < MaxCalls
        /\ conc' = [conc EXCEPT
                       !.pc[c] = IF out.ok THEN "advance" ELSE "idle",
                       !.page[c] = out.entities,
                       !.tot[c] = out.total,
                       !.requested = @ \cup {offset},
                       !.answered = IF out.ok THEN @ \cup {offset} ELSE @,
                       !.twice = @ \/ offset \in conc.requested,
                       !.again = @ \/ offset \in conc.answered]
        /\ query_params' = out.stored
        /\ nNext' = nNext + 1
        /\ fetched' = fetched + (IF out.ok THEN 1 ELSE 0)
        /\ lastReq' = Some(Call(offset, limit, query_params, out))
        /\ lastPage' = IF out.ok THEN out.entities ELSE lastPage
        /\ pageReqs' = IF out.ok
                        THEN Append(pageReqs, [off |-> offset, lim |-> limit,
                                               request |-> out.request])
                        ELSE pageReqs
        /\ last' = StepOp
        /\ UNCHANGED <<collection, nextId, changes, data, limit, offset, total,
                       start, filter0, yielded, nLen, stops, lenRun>>

\* `self.offset += self.limit`
StepAdvance(c) ==
    /\ c \in Callers /\ conc.pc[c] = "advance"
    /\ offset' = Advance(offset, limit)
    /\ conc' = [conc EXCEPT !.pc[c] = "extend"]
    /\ last' = StepOp
    /\ UNCHANGED <<collection, nextId, changes, data, limit, total,
                   query_params, start, filter0, yielded, nNext, nLen, fetched,
                   stops, lastReq, lenRun, lastPage, pageReqs>>

\* `self._data.extend(entities)`, `self._total = total`
StepExtend(c) ==
    /\ c \in Callers /\ conc.pc[c] = "extend"
    /\ data' = data \o conc.page[c]
    /\ total' = Some(conc.tot[c])
    /\ conc' = [conc EXCEPT !.pc[c] = "check", !.page[c] = <<>>, !.tot[c] = 0]
    /\ last' = StepOp
    /\ UNCHANGED <<collection, nextId, changes, limit, offset, query_params,
                   start, filter0, yielded, nNext, nLen, fetched, stops,
                   lastReq, lenRun, lastPage, pageReqs>>

\* `if len(self._data) == 0: raise StopIteration(...)`
StepCheck(c) ==
    /\ c \in Callers /\ conc.pc[c] = "check"
    /\ conc' = [conc EXCEPT
                   !.pc[c] = IF PageExhausted(data) THEN "idle" ELSE "pop"]
    /\ stops' = stops + (IF PageExhausted(data) THEN 1 ELSE 0)
    /\ last' = StepOp
    /\ UNCHANGED <<collection, nextId, changes, data, limit, offset, total,
                   query_params, start, filter0, yielded, nNext, nLen, fetched,
                   lastReq, lenRun, lastPage, pageReqs>>

\* `return self._data.popleft()`: IndexError on an empty deque
StepPop(c) ==
    /\ c \in Callers /\ conc.pc[c] = "pop"
    /\ conc' = [conc EXCEPT !.pc[c] = "idle",
                            !.popEmpty = @ \/ data = <<>>]
    /\ data' = IF data = <<>> THEN data ELSE Tail(data)
    /\ yielded' = IF data = <<>> THEN yielded ELSE Append(yielded, Head(data))
    /\ last' = StepOp
    /\ UNCHANGED <<collection, nextId, changes, limit, offset, total,
                   query_params, start, filter0, nNext, nLen, fetched, stops,
                   lastReq, lenRun, lastPage, pageReqs>>

\* one or two callers over a server that does not change
InitConc == InitWith({EmptyDict}, {1, 2})

NextConc == \/ \E c \in CallerIds : StepTest(c)
            \/ \E c \in CallerIds : \E fault \in ConcFaults : StepList(c, fault)
            \/ \E c \in CallerIds : StepAdvance(c)
            \/ \E c \in CallerIds : StepExtend(c)
            \/ \E c \in CallerIds : StepCheck(c)
            \/ \E c \in CallerIds : StepPop(c)

SpecConc == InitConc /\ [][NextConc]_vars

\* ------------------------------------------------------------------ claims
Ceil(a, b) == (a + b - 1) \div b

Entities(ids) == [i \in 1..Len(ids) |-> Constructor(ids[i])]

\* C1: over a server that does not change, a fresh Result with start offset 0
\* and limit >= 1 has, when next() first signals end-of-sequence, yielded
\* exactly the server's entities, each once and in the server's order, with
\* ceil(total/limit) + 1 list calls by next(), the last returning no entity.
C1_ExhaustionYieldsAll ==
    (start = 0 /\ limit >= 1 /\ stops = 1) =>
        /\ yielded = Entities(collection)
        /\ nNext = Ceil(Len(collection), limit) + 1
        /\ last.op = "next" => (last.called /\ last.page = <<>>)

C1_Witness ==
    /\ start = 0 /\ limit = 1 /\ Len(collection) = 2
    /\ stops = 1 /\ last.op = "next" /\ last.outcome = "stop"
    /\ nNext = 3 /\ Len(yielded) = 2

\* C2: once a next() call has signalled end-of-sequence, a later next() call
\* issues no list call and leaves the offset as it is.
C2_ExhaustedIsInert ==
    [][(limit >= 1 /\ stops >= 1 /\ last'.op = "next") =>
          (~last'.called /\ offset' = offset)]_vars

\* C3: once a next() call has signalled end-of-sequence, no later next()
\* call returns an entity (it signals end-of-sequence, or a collaborator's
\* failure propagates), whatever the server holds by then.
C3_SinglePass ==
    [][(stops >= 1 /\ last'.op = "next") => last'.outcome # "value"]_vars

\* C4: is_empty() returns true iff the server's total is zero, also when the
\* Result has not learned the total yet (server that does not change).
C4_IsEmptyIffTotalZero ==
    last.op = "is_empty" => (last.value[1] <=> Len(collection) = 0)

\* C5: in a run of length() calls with no next() in between, only a call
\* that finds the total unknown issues a list call, so a run issues one list
\* call that succeeds if it began with the total unknown and none otherwise
\* (a failed call memoizes nothing and the following call asks again); that
\* call is list(0, 0, ...); every call of the run that returns, returns the
\* same value, whatever the server holds by then; and length() after a
\* completed page fetch issues no list call.
C5_LengthMemoized ==
    /\ lenRun.calls = lenRun.fails +
           (IF ~lenRun.known /\ lenRun.vals # {} THEN 1 ELSE 0)
    /\ Cardinality(lenRun.vals) <= 1
    /\ (last.op = "len" /\ last.called) =>
           /\ lastReq[1].off = 0 /\ lastReq[1].lim = 0
           /\ lastReq[1].request["offset"] = <<"0">>
           /\ lastReq[1].request["limit"] = <<"0">>
    /\ (last.op = "len" /\ fetched >= 1) => ~last.called

C5_Witness ==
    /\ last.op = "len" /\ last.outcome = "value"
    /\ ~last.called /\ lenRun.calls = 1 /\ lenRun.fails = 0
    /\ changes = 1 /\ total # Some(Len(collection))

\* C6: a step that changes the offset, the limit or the buffer is a next()
\* call; length() and is_empty() leave all three as they are.
C6_OnlyNextMovesCursor ==
    [][/\ last'.op \in {"len", "is_empty"} =>
              (offset' = offset /\ limit' = limit /\ data' = data)
       /\ (offset' # offset \/ limit' # limit \/ data' # data) =>
              last'.op = "next"]_vars

C6_Witness ==
    /\ last.op = "len" /\ last.called /\ last.outcome = "value"
    /\ limit = 2 /\ offset = 1 /\ Len(collection) >= 2

\* C7: the query of every list call carries offset = str(offset),
\* limit = str(limit), archived = "false" and sortBy[createdAt] = "desc",
\* whatever the caller's mapping holds under these keys.
C7_ReservedKeysWin ==
    lastReq # None =>
        LET c == lastReq[1]
        IN  /\ ReservedKeys \subseteq DOMAIN c.request
            /\ c.request["offset"] = str(c.off)
            /\ int(c.request["offset"]) = c.off
            /\ c.request["limit"] = str(c.lim)
            /\ int(c.request["limit"]) = c.lim
            /\ c.request["archived"] = <<"f", "a", "l", "s", "e">>
            /\ c.request["sortBy[createdAt]"] = <<"d", "e", "s", "c">>

C7_Witness ==
    /\ lastReq # None
    /\ \A k \in ReservedKeys :
           k \in DOMAIN lastReq[1].qp /\ lastReq[1].qp[k] # lastReq[1].request[k]

\* C8: get on a transport that returns a response with status 404 fails and
\* does not invoke the entity factory.
C8_NotFoundSkipsFactory ==
    (last.op = "get" /\ last.status = 404) =>
        (last.outcome = "error" /\ last.factory = 0)

CollaboratorErrors ==
    {"TransportError", "TypeError", "ValueError", "ConstructionError"}

\* C9: a next() or length() call whose list call fails ends with that
\* failure and leaves offset, buffer and total as they were; a next() call
\* right after a failed next() call asks for the same offset again.
C9_FailureLeavesCursor ==
    [][/\ (last'.op \in {"next", "len"} /\ last'.outcome = "error") =>
              /\ last'.called /\ last'.err \in CollaboratorErrors
              /\ offset' = offset /\ data' = data /\ total' = total
       /\ (last.op = "next" /\ last.outcome = "error" /\ last'.op = "next") =>
              /\ last'.called
              /\ lastReq'[1].off = lastReq[1].off
              /\ lastReq'[1].request["offset"] = lastReq[1].request["offset"]
      ]_vars

C9_Witness ==
    /\ last.op = "next" /\ last.outcome = "error"
    /\ last.err = "ConstructionError"
    /\ fetched >= 1 /\ limit >= 1 /\ lastReq[1].off = offset

OwnKeys(d) == (DOMAIN d) \ ReservedKeys

\* C10: the keys of the Result's query filter that are not reserved, and
\* their values, are in the Result's stored filter and in the query of every
\* list call, and no other non-reserved key is.
C10_OwnKeysUnchanged ==
    /\ OwnKeys(query_params) = OwnKeys(filter0)
    /\ \A k \in OwnKeys(filter0) : query_params[k] = filter0[k]
    /\ lastReq # None =>
           /\ OwnKeys(lastReq[1].request) = OwnKeys(filter0)
           /\ \A k \in OwnKeys(filter0) : lastReq[1].request[k] = filter0[k]

C10_Witness ==
    /\ lastReq # None /\ OwnKeys(filter0) # {}
    /\ query_params # filter0 /\ nNext >= 2

\* C11: in every reachable state, for every limit >= 0, the offset is the start
\* offset plus limit times the number of page fetches of next() that
\* completed; no step decreases the offset and no step changes the limit.
C11_OffsetIsStartPlusPages ==
    [][/\ limit >= 0
       /\ offset = start + limit * fetched
       /\ offset' = start' + limit' * fetched'
       /\ offset' >= offset
       /\ limit' = limit]_vars

C11_Witness ==
    /\ start = 1 /\ limit = 2 /\ fetched = 2 /\ offset = 5
    /\ nNext > fetched

\* C12: a next() call issues a list call exactly when the buffer is empty as
\* it is called, and then one; on a non-empty buffer it returns the head,
\* leaves the tail, and nothing of a list call happens (no request, no offset
\* advance, no write to the stored filter).
C12_FetchIffBufferEmpty ==
    [][last'.op = "next" =>
        /\ last'.called <=> data = <<>>
        /\ nNext' = nNext + (IF data = <<>> THEN 1 ELSE 0)
        /\ data # <<>> =>
            /\ last'.outcome = "value"
            /\ last'.value = Some(Head(data))
            /\ data' = Tail(data)
            /\ yielded' = Append(yielded, Head(data))
            /\ UNCHANGED <<offset, total, query_params, fetched, lastReq,
                           lastPage, pageReqs>>]_vars

C12_Witness ==
    /\ last.op = "next" /\ ~last.called /\ last.outcome = "value"
    /\ limit = 2 /\ fetched = 1 /\ nNext = 1 /\ Len(yielded) = 2
    /\ data = <<>>

\* a step in which a list call of the Result returned (a page fetch of next()
\* or the count query of length())
ListCallCompletes ==
    /\ last'.op \in {"next", "len"}
    /\ last'.called
    /\ last'.err \notin CollaboratorErrors

\* C13: the total is unknown in the initial state; a step in which a list
\* call of the Result returns sets it to the count the server reports in that
\* call (the size of the collection at that moment), replacing a memoized
\* value; no other step changes it; a length() call that returns, returns it.
C13_TotalIsLatestReported ==
    [][/\ last.op = "init" => total = None
       /\ ListCallCompletes => total' = Some(Len(collection))
       /\ ~ListCallCompletes => total' = total
       /\ (last'.op = "len" /\ last'.outcome = "value") =>
              last'.value = total']_vars

C13_Witness ==
    /\ last.op = "len" /\ ~last.called /\ last.value = Some(2)
    /\ Len(collection) = 2 /\ changes = 1
    /\ nLen = 1 /\ fetched = 1 /\ nNext = 1

\* the last completed page fetch returned at least one entity and fewer than
\* limit entities
PartialPage == Len(lastPage) >= 1 /\ Len(lastPage) < limit

\* C14: a next() call signals end-of-sequence exactly when it performed a
\* page fetch that returned and the page held no entity; a call that fetched
\* a page of at least one entity returns an entity, also when the page is
\* shorter than limit; and the next() that follows a drained partial page
\* issues one list call.
C14_StopIffEmptyPage ==
    [][last'.op = "next" =>
        /\ last'.outcome = "stop" <=>
               (last'.called /\ last'.err \notin CollaboratorErrors
                             /\ last'.page = <<>>)
        /\ (last'.called /\ last'.page # <<>>) =>
               (last'.outcome = "value" /\ last'.value = Some(Head(last'.page)))
        /\ (PartialPage /\ data = <<>>) =>
               (last'.called /\ nNext' = nNext + 1)]_vars

C14_Witness ==
    /\ limit = 2 /\ start = 0 /\ Len(collection) = 1 /\ changes = 0
    /\ yielded = Entities(collection)
    /\ last.op = "next" /\ last.called /\ last.outcome = "stop"
    /\ nNext = 2 /\ fetched = 2

\* C16: a finished next() call has exactly one of three outcomes: it returned
\* an entity and raised nothing, it raised StopIteration, or it raised the
\* failure of its list call; it never raised the IndexError of a pop from an
\* empty buffer.
C16_ThreeOutcomes ==
    last.op = "next" =>
        /\ last.err # "IndexError"
        /\ \/ last.outcome = "value" /\ last.value # None /\ last.err = ""
           \/ last.outcome = "stop" /\ last.value = None
                                    /\ last.err = "StopIteration"
           \/ last.outcome = "error" /\ last.value = None /\ last.called
                                     /\ last.err \in CollaboratorErrors

C16_Witness ==
    /\ last.op = "next" /\ last.outcome = "error"
    /\ stops >= 1 /\ Len(yielded) >= 1

\* the sequences left of s after dropping some first elements
Suffixes(s) == {SubSeq(s, k + 1, Len(s)) : k \in 0..Len(s)}

\* C18: in every reachable state the buffer is a suffix of the page of the
\* latest completed page fetch, in the order of that page; so it holds
\* entities of one page only and is never longer than that page.
C18_BufferIsSuffixOfLastPage ==
    /\ data \in Suffixes(lastPage)
    /\ Len(data) <= Len(lastPage)

C18_Witness ==
    /\ Len(lastPage) = 2 /\ data = <<lastPage[2]>>
    /\ last.op = "next" /\ last.called
    /\ yielded = <<lastPage[1]>>

\* the Result after k next() calls and no length() call, from its start
\* offset and the filter it was created with, over the present collection
\* and a server that answers every call; reqs are its page requests
RECURSIVE NextOnly(_)
NextOnly(k) ==
    IF k = 0
    THEN [offset |-> start, data |-> <<>>, total |-> None, qp |-> filter0,
          yielded |-> <<>>, reqs |-> <<>>]
    ELSE LET s == NextOnly(k - 1)
             called == NeedsFetch(s.data)
             out == list(s.offset, limit, s.qp, "none")
             r == Result_next(s.offset, limit, s.data, s.total, out)
         IN  [offset |-> r.offset, data |-> r.data, total |-> r.total,
              qp |-> IF called THEN out.stored ELSE s.qp,
              yielded |-> IF r.value # None THEN Append(s.yielded, r.value[1])
                          ELSE s.yielded,
              reqs |-> IF called /\ out.ok
                       THEN Append(s.reqs, [off |-> s.offset, lim |-> limit,
                                            request |-> out.request])
                       ELSE s.reqs]

\* over a server that answers every call, each next() call that has ended
\* yielded an entity or signalled end-of-sequence
NextCalls == Len(yielded) + stops

\* C17: over a server that does not change, whatever length() calls were made
\* before and between the next() calls, the page requests of next() (offset,
\* limit and the query sent), the entities yielded, the offset and the buffer
\* are those of the same number of next() calls made with no length() call,
\* for the empty filter and for filters the count call has written offset 0
\* and limit 0 into.
C17_LengthKeepsIteration ==
    LET ref == NextOnly(NextCalls)
    IN  /\ pageReqs = ref.reqs
        /\ yielded = ref.yielded
        /\ offset = ref.offset
        /\ data = ref.data

C17_Witness ==
    /\ nLen = 1
    /\ filter0 = OwnKeyFilter
    /\ start = 1 /\ limit = 1
    /\ Len(pageReqs) = 2 /\ Len(yielded) = 1 /\ stops = 1
    /\ pageReqs[1].request["offset"] = str(1)
    /\ pageReqs[1].request["limit"] = str(1)
    /\ pageReqs[2].request["offset"] = str(2)

\* C15 as stated: with a single caller no list call asks for an offset that
\* a list call asked for before, and no pop is applied to an empty buffer.
C15_SingleCallerNeverRepeats ==
    conc.n = 1 => (~conc.twice /\ ~conc.popEmpty)

\* C15: with a single caller and limit >= 1, no list call asks for an offset
\* that a list call has returned a page for, and no pop is applied to an
\* empty buffer; two callers whose steps interleave reach both.
C15_SingleCallerSafe ==
    (conc.n = 1 /\ limit >= 1) => (~conc.again /\ ~conc.popEmpty)

C15_Witness ==
    /\ conc.n = 2 /\ limit >= 1
    /\ conc.again /\ conc.popEmpty

====
